---- MODULE Spec2Model ----
(***************************************************************************)
(* Model of src/etc/main.c (MMIO alignment prober and polled UART driver)  *)
(* and of the memory map it shares with src/etc/bios/bios.c.               *)
(*                                                                         *)
(* Addresses are 32-bit and are kept as pairs <<hi, lo>> of 16-bit halves, *)
(* so that address arithmetic wraps modulo the pointer width.  Stored      *)
(* values wider than 16 bits are kept as the 16-bit groups of the literal  *)
(* as it is written in the source, most significant group first; a store   *)
(* lays them out in memory in little-endian byte order.                    *)
(***************************************************************************)
EXTENDS Integers, Sequences, FiniteSets, TLC

VARIABLES
    fill,       \* RAM: the byte every cell holds at power-up
    mem,        \* RAM: address -> byte, for the cells written since power-up
    uart,       \* UART register -> what it presents to the prober, once the
                \* prober has accessed it
    misaligned, \* what the platform does with a misaligned access ("unseen"
                \* until a run of main makes one)
    mtvec,      \* trap vector CSR
    done,       \* the global `done`
    calls,      \* number of top-level invocations made so far
    pc,         \* position of the single execution context
    ip,         \* main: index of the next statement
    base,       \* main: the baseAddress argument
    tmp,        \* main: the value of the last load
    acc,        \* main: loads and stores issued so far, in order
    traps,      \* main: traps taken so far
    caller,     \* uart_send: who called it
    sendByte,   \* uart_send: the byte argument
    str,        \* uart_send_string: the string, NUL included
    sp,         \* uart_send_string: the position of the str pointer
    out,        \* uart_read: the caller's output byte
    ret,        \* the return value of the operation
    io,         \* UART register accesses made during the current invocation
    bios,       \* bios.c: ms and count of delay, the byte main has loaded
                \* (val), the iterations of its loop completed (iter)
    snap        \* history: the state main was entered in (entry); the
                \* operation just before this one, kept when both are runs
                \* of main (prev) or both are status checks (pred)

vars == <<fill, mem, uart, misaligned, mtvec, done, calls, pc, ip, base, tmp, acc,
          traps, caller, sendByte, str, sp, out, ret, io, bios, snap>>

callVars == <<ip, base, tmp, acc, traps, caller, sendByte, str, sp, out>>

-----------------------------------------------------------------------------
(* Bounds of the model *)

MaxPolls == 3
MaxCalls == 2
MaxTraps == 2
MaxStrLen == 2
MaxIter == 258
MaxDelay == 3

-----------------------------------------------------------------------------
(* Addresses *)

\* 2^16: the number of values of the upper half of a 32-bit address
AddrHiMod == 65536

\* Mutant: the carry out of the low half is lost
AddrAdd_NoCarry(a, off) == <<a[1], (a[2] + off) % 65536>>

AddrAdd(a, off) ==
    LET s == a[2] + off
    IN  <<(a[1] + (s \div 65536)) % AddrHiMod, s % 65536>>

\* main.c: #define UART_BASE_ADDR 0x00010000
UART_BASE_ADDR == <<1, 0>>
UART_STATUS_REG == 0
UART_CONFIG_REG == 4
UART_DATA_REG == 8

UART_TX_FIFO_EMPTY_BIT == 0
UART_TX_FIFO_FULL_BIT == 1
UART_RX_FIFO_EMPTY_BIT == 2
UART_IRQ_PENDING_BIT == 4

UART_STATUS_ADDR == AddrAdd(UART_BASE_ADDR, UART_STATUS_REG)
UART_CONFIG_ADDR == AddrAdd(UART_BASE_ADDR, UART_CONFIG_REG)
UART_DATA_ADDR == AddrAdd(UART_BASE_ADDR, UART_DATA_REG)

UartRegs == {"status", "config", "data"}

RegAddr(r) ==
    CASE r = "status" -> UART_STATUS_ADDR
      [] r = "config" -> UART_CONFIG_ADDR
      [] r = "data" -> UART_DATA_ADDR

UartAddrs == {RegAddr(r) : r \in UartRegs}

\* bios.c: #define MEMORY_ADDRESS 0x00000F00
MEMORY_ADDRESS == <<0, 3840>>

\* Offsets of the test region, main.c lines 143-187
RegionFirst == 65488
RegionLast == 65535

Region(b) == {AddrAdd(b, off) : off \in RegionFirst..RegionLast}

\* The baseAddress values the caller passes:
\*   0x00000000  region 0xFFD0..0xFFFF, the top of system memory
\*   0x00000008  resultA falls on the UART status register
\*   0x00000030  locationA falls on the status register, locationB on data
\*   0x00000038  locationA falls on the data register
\*   0x00000040  the first 8-aligned base whose region lies above the UART
\*   0xFFFF0F30  base + 0xFFD0 wraps to the heartbeat byte 0x00000F00
\*   0x00020004  4-aligned only: the 64-bit stores are misaligned
BaseAddrs == {<<0, 0>>, <<0, 8>>, <<0, 48>>, <<0, 56>>, <<0, 64>>,
              <<65535, 3888>>, <<2, 4>>}

\* Contents of RAM at power-up
InitFills == {0, 165}

\* Values the hardware presents in the registers
StatusVals == {0, 1, 2, 4, 255}
DataVals == {65, 200}
ConfigVals == {0}

HwVals(r) ==
    CASE r = "status" -> StatusVals
      [] r = "config" -> ConfigVals
      [] r = "data" -> DataVals

\* What a misaligned access does on the target: it is performed, it is
\* silently dropped, or it traps (trap() is a bare mret, which returns to
\* the faulting instruction).
MisalignedOutcomes == {"land", "drop", "trap"}

-----------------------------------------------------------------------------
(* Values and conversions *)

Min(a, b) == IF a < b THEN a ELSE b

BitSet(v, bit) == (v \div (2 ^ bit)) % 2 = 1

\* Mutant: big-endian byte order
BytesLE_BigEndian(groups) ==
    [i \in 1..(2 * Len(groups)) |->
        LET g == groups[(i + 1) \div 2]
        IN  IF i % 2 = 1 THEN g \div 256 ELSE g % 256]

\* The little-endian bytes of a value given as 16-bit groups, most
\* significant group first.
BytesLE(groups) ==
    [i \in 1..(2 * Len(groups)) |->
        LET g == groups[Len(groups) - ((i - 1) \div 2)]
        IN  IF i % 2 = 1 THEN g % 256 ELSE g \div 256]

\* The bytes a store of `width` bytes writes: the low `width` bytes.
StoreBytes(groups, width) == SubSeq(BytesLE(groups), 1, width)

\* An int as the one 16-bit group an int16_t store keeps of it.
Trunc16(v) == <<v % 65536>>

\* The int a load of an int16_t yields from its two bytes (sign-extended).
SignExt16(bytes) ==
    LET u == bytes[1] + 256 * bytes[2]
    IN  IF u >= 32768 THEN u - 65536 ELSE u

\* Mutant: the negation is lost
Negate_Identity(v) == v

Negate(v) == 0 - v

\* (uint8_t)byte of a char
ToUint8(c) == c % 256

Misaligned(a, width) == a[2] % width # 0

-----------------------------------------------------------------------------
(* The prober's statements, main.c lines 167-191 *)

Literals == <<
    [off |-> 65488, width |-> 8, val |-> <<4386, 13124, 21862, 30600>>],
    [off |-> 65496, width |-> 8, val |-> <<65518, 56780, 48042, 39304>>],
    [off |-> 65504, width |-> 4, val |-> <<4386, 13124>>],
    [off |-> 65508, width |-> 4, val |-> <<65518, 56780>>],
    [off |-> 65512, width |-> 2, val |-> <<65518>>],
    [off |-> 65514, width |-> 2, val |-> <<56780>>],
    [off |-> 65516, width |-> 2, val |-> <<48042>>],
    [off |-> 65518, width |-> 2, val |-> <<4660>>],
    [off |-> 65520, width |-> 1, val |-> <<254>>],
    [off |-> 65521, width |-> 1, val |-> <<220>>],
    [off |-> 65522, width |-> 1, val |-> <<186>>],
    [off |-> 65523, width |-> 1, val |-> <<152>>],
    [off |-> 65524, width |-> 1, val |-> <<118>>],
    [off |-> 65525, width |-> 1, val |-> <<84>>],
    [off |-> 65526, width |-> 1, val |-> <<50>>],
    [off |-> 65527, width |-> 1, val |-> <<16>>] >>

ResultAOff == 65528
\* Mutant: resultB is placed at an odd offset
ResultBOff_Odd == ResultAOff + 1

ResultBOff == 65530
ResultCOff == 65532
ResultDOff == 65534

ResultAValue == 800 + 50
ResultBValue == 200 - 75

-----------------------------------------------------------------------------
(* Register accesses, as the hardware sees them *)

IoInit == [fullRd |-> 0, clearRd |-> 0, stWr |-> <<>>, dataRd |-> 0,
           dataWr |-> <<>>, cfg |-> 0, last |-> <<>>]

UartInit == [status |-> 0, config |-> 0, data |-> 0]

RegAt(a) ==
    IF a = UART_STATUS_ADDR THEN "status"
    ELSE IF a = UART_CONFIG_ADDR THEN "config"
    ELSE IF a = UART_DATA_ADDR THEN "data"
    ELSE "none"

\* The access record after a read of register r that returned v.  Reads of
\* the status register are counted up to MaxPolls (the spin of uart_send is
\* unbounded): fullRd counts those that showed the TX-FIFO-full flag set,
\* clearRd those that showed it clear.
IoRead(i, r, v) ==
    CASE r = "status" ->
            IF BitSet(v, UART_TX_FIFO_FULL_BIT)
            THEN [i EXCEPT !.fullRd = Min(@ + 1, MaxPolls), !.last = <<r, "R", v>>]
            ELSE [i EXCEPT !.clearRd = Min(@ + 1, MaxPolls), !.last = <<r, "R", v>>]
      [] r = "data" -> [i EXCEPT !.dataRd = @ + 1, !.last = <<r, "R", v>>]
      [] r = "config" -> [i EXCEPT !.cfg = @ + 1, !.last = <<r, "R", v>>]

\* The access `last` is a read of the status register that showed the
\* TX-FIFO-full flag clear.
Ready(last) ==
    /\ last # <<>>
    /\ last[1] = "status"
    /\ last[2] = "R"
    /\ ~BitSet(last[3], UART_TX_FIFO_FULL_BIT)

\* The access record after a write of v to register r.
IoWrite(i, r, v) ==
    CASE r = "status" -> [i EXCEPT !.stWr = Append(@, v), !.last = <<r, "W", v>>]
      [] r = "data" ->
            [i EXCEPT !.dataWr = Append(@, [val |-> v, ready |-> Ready(i.last)]),
                      !.last = <<r, "W", v>>]
      [] r = "config" -> [i EXCEPT !.cfg = @ + 1, !.last = <<r, "W", v>>]

Touched(a, width) == {RegAt(AddrAdd(a, k)) : k \in 0..(width - 1)} \ {"none"}

RECURSIVE IoStore(_, _, _, _)
IoStore(i, a, bytes, k) ==
    IF k > Len(bytes) THEN i
    ELSE LET r == RegAt(AddrAdd(a, k - 1))
         IN  IoStore(IF r = "none" THEN i ELSE IoWrite(i, r, bytes[k]),
                     a, bytes, k + 1)

RECURSIVE IoLoad(_, _, _, _, _)
IoLoad(i, a, width, h, k) ==
    IF k > width THEN i
    ELSE LET r == RegAt(AddrAdd(a, k - 1))
         IN  IoLoad(IF r = "none" THEN i ELSE IoRead(i, r, h[r]),
                    a, width, h, k + 1)

\* The byte RAM holds at address x
MemByte(m, f, x) == IF x \in DOMAIN m THEN m[x] ELSE f

\* RAM after a store of `bytes` at address a; the bytes that fall on a UART
\* register do not reach RAM.
MemStore(m, a, bytes) ==
    LET hit == {AddrAdd(a, k - 1) : k \in 1..Len(bytes)} \ UartAddrs
    IN  [x \in DOMAIN m \cup hit |->
            IF x \in hit
            THEN bytes[CHOOSE k \in 1..Len(bytes) : AddrAdd(a, k - 1) = x]
            ELSE m[x]]

ByteWritten(a, bytes, r) ==
    bytes[CHOOSE k \in 1..Len(bytes) : AddrAdd(a, k - 1) = RegAddr(r)]

\* What the registers present after a store: a register the store hits
\* presents what the hardware makes of the write (the byte written is one
\* possibility), the others are not accessed.
StoreOutcomes(u, a, bytes) ==
    LET t == Touched(a, Len(bytes))
        S(r) == IF r \in t THEN HwVals(r) \cup {ByteWritten(a, bytes, r)} ELSE {u[r]}
    IN  {[status |-> s, config |-> c, data |-> d] :
            s \in S("status"), c \in S("config"), d \in S("data")}

\* What the registers present to a load.
LoadOutcomes(u, a, width) ==
    LET t == Touched(a, width)
        S(r) == IF r \in t THEN HwVals(r) ELSE {u[r]}
    IN  {[status |-> s, config |-> c, data |-> d] :
            s \in S("status"), c \in S("config"), d \in S("data")}

LoadBytes(m, f, h, a, width) ==
    [k \in 1..width |->
        LET x == AddrAdd(a, k - 1)
        IN  IF RegAt(x) = "none" THEN MemByte(m, f, x) ELSE h[RegAt(x)]]

-----------------------------------------------------------------------------
(* Initial state *)

BiosInit == [ms |-> 0, count |-> 0, val |-> 0, iter |-> 0]

NoEntry == [taken |-> FALSE, mem |-> <<>>, mtvec |-> "unset", done |-> 0]

NoPrev == [ran |-> FALSE, base |-> <<0, 0>>, mem |-> <<>>]

NoPred == [op |-> "none", s |-> 0, ret |-> 0]

SnapInit == [entry |-> NoEntry, prev |-> NoPrev, pred |-> NoPred]

Init ==
    /\ fill \in InitFills
    /\ mem = <<>>
    /\ uart = UartInit
    /\ misaligned = "unseen"
    /\ mtvec = "unset"
    /\ done = 0
    /\ calls = 0
    /\ pc = "idle"
    /\ ip = 0
    /\ base = <<0, 0>>
    /\ tmp = 0
    /\ acc = <<>>
    /\ traps = 0
    /\ caller = "top"
    /\ sendByte = 0
    /\ str = <<0>>
    /\ sp = 1
    /\ out = [written |-> FALSE, val |-> 0]
    /\ ret = 0
    /\ io = IoInit
    /\ bios = BiosInit
    /\ snap = SnapInit

-----------------------------------------------------------------------------
(* The prober: main(baseAddress), main.c lines 138-202 *)

CallMain ==
    /\ pc = "idle"
    /\ calls < MaxCalls
    /\ \E b \in BaseAddrs :
         /\ base' = b
         /\ IF misaligned = "unseen" /\ Misaligned(AddrAdd(b, RegionFirst), 8)
            THEN misaligned' \in MisalignedOutcomes
            ELSE misaligned' = misaligned
    /\ calls' = calls + 1
    /\ pc' = "main"
    /\ ip' = 0
    /\ snap' = [entry |-> [taken |-> TRUE, mem |-> mem,
                              mtvec |-> mtvec, done |-> done],
                prev |-> snap.prev,
                pred |-> NoPred]
    /\ UNCHANGED <<fill, bios, mem, uart, mtvec, done, tmp, acc, traps,
                   caller, sendByte, str, sp, out, ret, io>>

\* csrw mtvec, trap
MainSetTrapVector ==
    /\ pc = "main"
    /\ ip = 0
    /\ mtvec' = "trap"
    /\ ip' = 1
    /\ UNCHANGED <<fill, snap, bios, mem, uart, misaligned, done, calls, pc, base, tmp, acc,
                   traps, caller, sendByte, str, sp, out, ret, io>>

\* One volatile store of `width` bytes at baseAddress + off.
DoStore(off, width, groups) ==
    LET a == AddrAdd(base, off)
        bytes == StoreBytes(groups, width)
        mis == Misaligned(a, width)
    IN  /\ ~(mis /\ misaligned = "trap")
        /\ acc' = Append(acc, [op |-> "st", off |-> off, width |-> width,
                               bytes |-> bytes])
        /\ IF mis /\ misaligned = "drop"
           THEN UNCHANGED <<mem, uart, io>>
           ELSE /\ mem' = MemStore(mem, a, bytes)
                /\ io' = IoStore(io, a, bytes, 1)
                /\ uart' \in StoreOutcomes(uart, a, bytes)
        /\ ip' = ip + 1
        /\ UNCHANGED <<fill, snap, bios, misaligned, mtvec, done, calls, pc, base, traps,
                       caller, sendByte, str, sp, out, ret>>

\* One volatile load of an int16_t at baseAddress + off.
DoLoad16(off) ==
    LET a == AddrAdd(base, off)
        mis == Misaligned(a, 2)
    IN  /\ ~(mis /\ misaligned = "trap")
        /\ IF mis /\ misaligned = "drop"
           THEN /\ acc' = Append(acc, [op |-> "ld", off |-> off, width |-> 2,
                                       bytes |-> <<>>])
                /\ UNCHANGED <<uart, io, tmp>>
           ELSE \E h \in LoadOutcomes(uart, a, 2) :
                  LET bytes == LoadBytes(mem, fill, h, a, 2)
                  IN  /\ acc' = Append(acc, [op |-> "ld", off |-> off,
                                             width |-> 2, bytes |-> bytes])
                      /\ uart' = h
                      /\ io' = IoLoad(io, a, 2, h, 1)
                      /\ tmp' = SignExt16(bytes)
        /\ ip' = ip + 1
        /\ UNCHANGED <<fill, snap, bios, mem, misaligned, mtvec, done, calls, pc, base, traps,
                       caller, sendByte, str, sp, out, ret>>

\* *locationA = ... through *locationP = ..., lines 167-182
MainStoreLiteral ==
    /\ pc = "main"
    /\ ip \in 1..Len(Literals)
    /\ DoStore(Literals[ip].off, Literals[ip].width, Literals[ip].val)
    /\ UNCHANGED tmp

\* Mutant: resultA accumulates:  *resultA = *resultA + 850 on its low byte
MainStoreResultA_Accumulates ==
    /\ pc = "main"
    /\ ip = Len(Literals) + 1
    /\ DoStore(ResultAOff, 2,
               Trunc16(ResultAValue + MemByte(mem, fill, AddrAdd(base, ResultAOff))))
    /\ UNCHANGED tmp

\* *resultA = 800 + 50;
MainStoreResultA ==
    /\ pc = "main"
    /\ ip = Len(Literals) + 1
    /\ DoStore(ResultAOff, 2, Trunc16(ResultAValue))
    /\ UNCHANGED tmp

\* Mutant: the store to resultB is elided
MainStoreResultB_Elided ==
    /\ pc = "main"
    /\ ip = Len(Literals) + 2
    /\ ip' = ip + 1
    /\ UNCHANGED <<fill, snap, bios, mem, uart, misaligned, mtvec, done, calls, pc, base,
                   tmp, acc, traps, caller, sendByte, str, sp, out, ret, io>>

\* *resultB = 200 - 75;
MainStoreResultB ==
    /\ pc = "main"
    /\ ip = Len(Literals) + 2
    /\ DoStore(ResultBOff, 2, Trunc16(ResultBValue))
    /\ UNCHANGED tmp

\* the read of *resultA in  *resultC = -(*resultA);
MainLoadResultA ==
    /\ pc = "main"
    /\ ip = Len(Literals) + 3
    /\ DoLoad16(ResultAOff)

\* Mutant: resultC is stored as the constant -850
MainStoreResultC_Constant ==
    /\ pc = "main"
    /\ ip = Len(Literals) + 4
    /\ DoStore(ResultCOff, 2, Trunc16(Negate(ResultAValue)))
    /\ UNCHANGED tmp

\* the store of  *resultC = -(*resultA);
MainStoreResultC ==
    /\ pc = "main"
    /\ ip = Len(Literals) + 4
    /\ DoStore(ResultCOff, 2, Trunc16(Negate(tmp)))
    /\ UNCHANGED tmp

\* the read of *resultB in  *resultD = -(*resultB);
MainLoadResultB ==
    /\ pc = "main"
    /\ ip = Len(Literals) + 5
    /\ DoLoad16(ResultBOff)

\* Mutant: resultD is stored as a 4-byte value
MainStoreResultD_Wide ==
    /\ pc = "main"
    /\ ip = Len(Literals) + 6
    /\ DoStore(ResultDOff, 4, Trunc16(Negate(tmp)) \o <<0>>)
    /\ UNCHANGED tmp

\* the store of  *resultD = -(*resultB);
MainStoreResultD ==
    /\ pc = "main"
    /\ ip = Len(Literals) + 6
    /\ DoStore(ResultDOff, 2, Trunc16(Negate(tmp)))
    /\ UNCHANGED tmp

\* return 0;
MainReturn ==
    /\ pc = "main"
    /\ ip = Len(Literals) + 7
    /\ ret' = 0
    /\ pc' = "main_ret"
    /\ UNCHANGED <<fill, snap, bios, mem, uart, misaligned, mtvec, done, calls, ip, base, tmp,
                   acc, traps, caller, sendByte, str, sp, out, io>>

\* The statement at ip is an access the platform traps on: trap() returns
\* (mret) to the same instruction.
NextAccess ==
    IF ip \in 1..Len(Literals)
    THEN [off |-> Literals[ip].off, width |-> Literals[ip].width]
    ELSE [off |-> CASE ip = Len(Literals) + 1 -> ResultAOff
                    [] ip = Len(Literals) + 2 -> ResultBOff
                    [] ip = Len(Literals) + 3 -> ResultAOff
                    [] ip = Len(Literals) + 4 -> ResultCOff
                    [] ip = Len(Literals) + 5 -> ResultBOff
                    [] OTHER -> ResultDOff,
          width |-> 2]

MainTrap ==
    /\ pc = "main"
    /\ ip \in 1..(Len(Literals) + 6)
    /\ misaligned = "trap"
    /\ Misaligned(AddrAdd(base, NextAccess.off), NextAccess.width)
    /\ traps' = Min(traps + 1, MaxTraps)
    /\ UNCHANGED <<fill, snap, bios, mem, uart, misaligned, mtvec, done, calls, pc, ip, base,
                   tmp, acc, caller, sendByte, str, sp, out, ret, io>>

-----------------------------------------------------------------------------
(* The polled UART driver, main.c lines 32-134 *)

\* Mutant: the full check tests the TX-FIFO-empty flag
TxFull_TestsEmptyBit(s) == BitSet(s, UART_TX_FIFO_EMPTY_BIT)

\* ((*UART_STATUS_ADDR) & (1 << UART_TX_FIFO_FULL_BIT)) != 0
TxFull(s) == BitSet(s, UART_TX_FIFO_FULL_BIT)

\* Mutant: the empty check tests the TX-FIFO-full flag
TxEmpty_TestsFullBit(s) == BitSet(s, UART_TX_FIFO_FULL_BIT)

\* ((*UART_STATUS_ADDR) & (1 << UART_TX_FIFO_EMPTY_BIT)) != 0
TxEmpty(s) == BitSet(s, UART_TX_FIFO_EMPTY_BIT)

\* Mutant: the receive check tests the TX-FIFO-full flag
RxEmpty_TestsTxFullBit(s) == BitSet(s, UART_TX_FIFO_FULL_BIT)

\* ((*UART_STATUS_ADDR) & (1 << UART_RX_FIFO_EMPTY_BIT)) != 0
RxEmpty(s) == BitSet(s, UART_RX_FIFO_EMPTY_BIT)

\* A C bool as the int it converts to
BoolInt(b) == IF b THEN 1 ELSE 0

\* The char arguments callers pass: 'A', and the byte 0xC8 as an unsigned
\* char (200) and as a signed char (-56).
SendChars == {65, 200, 0 - 56}

\* The characters of the strings callers pass: 'A', 'B'
StrChars == {65, 66}

\* NUL-terminated strings of at most MaxStrLen characters
Strings ==
    {Append(s, 0) : s \in UNION {[1..n -> StrChars] : n \in 0..MaxStrLen}}

\* One read of the status register, returning s.
StatusRead(s) ==
    /\ s \in StatusVals
    /\ io' = IoRead(io, "status", s)

CallIsTxFull ==
    /\ pc = "idle"
    /\ calls < MaxCalls
    /\ calls' = calls + 1
    /\ \E s \in StatusVals :
         /\ StatusRead(s)
         /\ ret' = BoolInt(TxFull(s))
    /\ pc' = "tx_full_ret"
    /\ snap' = [SnapInit EXCEPT !.pred = snap.pred]
    /\ UNCHANGED <<fill, bios, mem, uart, misaligned, mtvec, done, callVars>>

CallIsTxEmpty ==
    /\ pc = "idle"
    /\ calls < MaxCalls
    /\ calls' = calls + 1
    /\ \E s \in StatusVals :
         /\ StatusRead(s)
         /\ ret' = BoolInt(TxEmpty(s))
    /\ pc' = "tx_empty_ret"
    /\ snap' = [SnapInit EXCEPT !.pred = snap.pred]
    /\ UNCHANGED <<fill, bios, mem, uart, misaligned, mtvec, done, callVars>>

\* Mutant: the result of the previous check is reused
CallIsRxEmpty_Cached ==
    /\ pc = "idle"
    /\ calls < MaxCalls
    /\ calls' = calls + 1
    /\ IF snap.pred.op = "rx_empty_ret"
       THEN /\ ret' = snap.pred.ret
            /\ io' = io
       ELSE \E s \in StatusVals :
              /\ StatusRead(s)
              /\ ret' = BoolInt(RxEmpty(s))
    /\ pc' = "rx_empty_ret"
    /\ snap' = [SnapInit EXCEPT !.pred = snap.pred]
    /\ UNCHANGED <<fill, bios, mem, uart, misaligned, mtvec, done, callVars>>

CallIsRxEmpty ==
    /\ pc = "idle"
    /\ calls < MaxCalls
    /\ calls' = calls + 1
    /\ \E s \in StatusVals :
         /\ StatusRead(s)
         /\ ret' = BoolInt(RxEmpty(s))
    /\ pc' = "rx_empty_ret"
    /\ snap' = [SnapInit EXCEPT !.pred = snap.pred]
    /\ UNCHANGED <<fill, bios, mem, uart, misaligned, mtvec, done, callVars>>

\* uart_send(byte), called from the top level
CallSend ==
    /\ pc = "idle"
    /\ calls < MaxCalls
    /\ calls' = calls + 1
    /\ \E c \in SendChars : sendByte' = c
    /\ caller' = "top"
    /\ pc' = "send_poll"
    /\ snap' = SnapInit
    /\ UNCHANGED <<fill, bios, mem, uart, misaligned, mtvec, done, ip, base, tmp, acc,
                   traps, str, sp, out, ret, io>>

\* while (uart_is_tx_full()) { }   -- the condition holds: poll again
SendPollFull ==
    /\ pc = "send_poll"
    /\ \E s \in StatusVals :
         /\ TxFull(s)
         /\ StatusRead(s)
    /\ UNCHANGED <<fill, snap, bios, mem, uart, misaligned, mtvec, done, calls, pc, callVars, ret>>

\* while (uart_is_tx_full()) { }   -- the condition fails: leave the loop
SendPollClear ==
    /\ pc = "send_poll"
    /\ \E s \in StatusVals :
         /\ ~TxFull(s)
         /\ StatusRead(s)
    /\ pc' = "send_write"
    /\ UNCHANGED <<fill, snap, bios, mem, uart, misaligned, mtvec, done, calls, callVars, ret>>

\* Mutant: uart_send writes the byte to the config register
SendWrite_ToConfig ==
    /\ pc = "send_write"
    /\ io' = IoWrite(io, "config", ToUint8(sendByte))
    /\ ret' = 0
    /\ pc' = "send_ret"
    /\ UNCHANGED <<fill, snap, bios, mem, uart, misaligned, mtvec, done, calls, callVars>>

\* Mutant: uart_send reports failure
SendWrite_ReturnsError ==
    /\ pc = "send_write"
    /\ io' = IoWrite(io, "data", ToUint8(sendByte))
    /\ ret' = 0 - 1
    /\ pc' = "send_ret"
    /\ UNCHANGED <<fill, snap, bios, mem, uart, misaligned, mtvec, done, calls, callVars>>

\* *UART_DATA_ADDR = (uint8_t)byte;  return 0;
SendWrite ==
    /\ pc = "send_write"
    /\ io' = IoWrite(io, "data", ToUint8(sendByte))
    /\ ret' = 0
    /\ pc' = "send_ret"
    /\ UNCHANGED <<fill, snap, bios, mem, uart, misaligned, mtvec, done, calls, callVars>>

\* uart_send_string(str)
CallSendString ==
    /\ pc = "idle"
    /\ calls < MaxCalls
    /\ calls' = calls + 1
    /\ \E s \in Strings : str' = s
    /\ sp' = 1
    /\ pc' = "str_loop"
    /\ snap' = SnapInit
    /\ UNCHANGED <<fill, bios, mem, uart, misaligned, mtvec, done, ip, base, tmp, acc,
                   traps, caller, sendByte, out, ret, io>>

\* Mutant: the first character is sent every time
StrLoopSend_SendsFirst ==
    /\ pc = "str_loop"
    /\ str[sp] # 0
    /\ sendByte' = str[1]
    /\ caller' = "str"
    /\ pc' = "send_poll"
    /\ UNCHANGED <<fill, snap, bios, mem, uart, misaligned, mtvec, done, calls, ip, base,
                   tmp, acc, traps, str, sp, out, ret, io>>

\* while (*str != '\0') { if (uart_send(*str) ...   -- the call of uart_send
StrLoopSend ==
    /\ pc = "str_loop"
    /\ str[sp] # 0
    /\ sendByte' = str[sp]
    /\ caller' = "str"
    /\ pc' = "send_poll"
    /\ UNCHANGED <<fill, snap, bios, mem, uart, misaligned, mtvec, done, calls, ip, base, tmp,
                   acc, traps, str, sp, out, ret, io>>

\* ... if (uart_send(*str) != 0) return -1;  str++;
StrAfterSend ==
    /\ pc = "send_ret"
    /\ caller = "str"
    /\ IF ret # 0
       THEN /\ ret' = 0 - 1
            /\ pc' = "str_ret"
            /\ sp' = sp
       ELSE /\ sp' = sp + 1
            /\ pc' = "str_loop"
            /\ ret' = ret
    /\ caller' = "top"
    /\ UNCHANGED <<fill, snap, bios, mem, uart, misaligned, mtvec, done, calls, ip, base, tmp,
                   acc, traps, sendByte, str, out, io>>

\* while (*str != '\0') fails:  return 0;
StrLoopEnd ==
    /\ pc = "str_loop"
    /\ str[sp] = 0
    /\ ret' = 0
    /\ pc' = "str_ret"
    /\ UNCHANGED <<fill, snap, bios, mem, uart, misaligned, mtvec, done, calls, callVars, io>>

\* uart_read(byte)
CallRead ==
    /\ pc = "idle"
    /\ calls < MaxCalls
    /\ calls' = calls + 1
    /\ pc' = "read_poll"
    /\ snap' = SnapInit
    /\ UNCHANGED <<fill, bios, mem, uart, misaligned, mtvec, done, callVars, ret, io>>

\* Mutant: uart_read waits while the RX FIFO is empty
ReadEmpty_Waits ==
    /\ pc = "read_poll"
    /\ \E s \in StatusVals :
         /\ RxEmpty(s)
         /\ StatusRead(s)
    /\ UNCHANGED <<fill, snap, bios, mem, uart, misaligned, mtvec, done, calls, pc, callVars, ret>>

\* while (uart_is_rx_empty()) { return -1; }   -- the condition holds
ReadEmpty ==
    /\ pc = "read_poll"
    /\ \E s \in StatusVals :
         /\ RxEmpty(s)
         /\ StatusRead(s)
    /\ ret' = 0 - 1
    /\ pc' = "read_ret"
    /\ UNCHANGED <<fill, snap, bios, mem, uart, misaligned, mtvec, done, calls, callVars>>

\* while (uart_is_rx_empty()) ...   -- the condition fails
ReadNotEmpty ==
    /\ pc = "read_poll"
    /\ \E s \in StatusVals :
         /\ ~RxEmpty(s)
         /\ StatusRead(s)
    /\ pc' = "read_data"
    /\ UNCHANGED <<fill, snap, bios, mem, uart, misaligned, mtvec, done, calls, callVars, ret>>

\* *byte = (char)(*UART_DATA_ADDR);  return 0;
ReadData ==
    /\ pc = "read_data"
    /\ \E d \in DataVals :
         /\ io' = IoRead(io, "data", d)
         /\ out' = [written |-> TRUE, val |-> d]
    /\ ret' = 0
    /\ pc' = "read_ret"
    /\ UNCHANGED <<fill, snap, bios, mem, uart, misaligned, mtvec, done, calls, ip, base, tmp,
                   acc, traps, caller, sendByte, str, sp>>

\* Mutant: read-modify-write of the status register
CallClearIrq_ReadModifyWrite ==
    /\ pc = "idle"
    /\ calls < MaxCalls
    /\ calls' = calls + 1
    /\ \E s \in StatusVals :
         io' = IoWrite(IoRead(io, "status", s), "status",
                       IF BitSet(s, UART_IRQ_PENDING_BIT)
                       THEN s ELSE s + 2 ^ UART_IRQ_PENDING_BIT)
    /\ pc' = "irq_ret"
    /\ snap' = SnapInit
    /\ UNCHANGED <<fill, bios, mem, uart, misaligned, mtvec, done, callVars, ret>>

\* uart_clear_irq():  *status_reg = (1 << UART_IRQ_PENDING_BIT);
CallClearIrq ==
    /\ pc = "idle"
    /\ calls < MaxCalls
    /\ calls' = calls + 1
    /\ io' = IoWrite(io, "status", 2 ^ UART_IRQ_PENDING_BIT)
    /\ pc' = "irq_ret"
    /\ snap' = SnapInit
    /\ UNCHANGED <<fill, bios, mem, uart, misaligned, mtvec, done, callVars, ret>>

-----------------------------------------------------------------------------
(* The BIOS image, bios.c: it runs from reset *)

BiosPcs == {"bios_init", "bios_load", "bios_store", "bios_delay"}

DelayPcs == {"delay_while", "delay_for"}

\* The ms arguments of delay: main passes 1
DelayArgs == 0..MaxDelay

\* int main(): entered at reset
BiosMain ==
    /\ pc = "idle"
    /\ calls = 0
    /\ calls' = 1
    /\ pc' = "bios_init"
    /\ UNCHANGED <<fill, snap, bios, mem, uart, misaligned, mtvec, done, callVars, ret, io>>

\* *mem = 0;
BiosStoreZero ==
    /\ pc = "bios_init"
    /\ mem' = MemStore(mem, MEMORY_ADDRESS, <<0>>)
    /\ pc' = "bios_load"
    /\ UNCHANGED <<fill, snap, bios, uart, misaligned, mtvec, done, calls, callVars, ret, io>>

\* while(1) { *mem = *mem + 1;   -- the read of *mem
BiosLoad ==
    /\ pc = "bios_load"
    /\ bios' = [bios EXCEPT !.val = MemByte(mem, fill, MEMORY_ADDRESS)]
    /\ pc' = "bios_store"
    /\ UNCHANGED <<fill, snap, mem, uart, misaligned, mtvec, done, calls, callVars, ret, io>>

\* Mutant: the sum is stored without the conversion to uint8_t
BiosStoreInc_NoWrap ==
    /\ pc = "bios_store"
    /\ mem' = MemStore(mem, MEMORY_ADDRESS, <<bios.val + 1>>)
    /\ pc' = "bios_delay"
    /\ UNCHANGED <<fill, snap, bios, uart, misaligned, mtvec, done, calls, callVars, ret, io>>

\* *mem = *mem + 1;   -- the store: the int sum converted to uint8_t
BiosStoreInc ==
    /\ pc = "bios_store"
    /\ mem' = MemStore(mem, MEMORY_ADDRESS, <<ToUint8(bios.val + 1)>>)
    /\ pc' = "bios_delay"
    /\ UNCHANGED <<fill, snap, bios, uart, misaligned, mtvec, done, calls, callVars, ret, io>>

\* delay(1);   -- the call in main
BiosCallDelay ==
    /\ pc = "bios_delay"
    /\ bios' = [bios EXCEPT !.ms = 1]
    /\ caller' = "bios"
    /\ pc' = "delay_while"
    /\ UNCHANGED <<fill, snap, mem, uart, misaligned, mtvec, done, calls, ip, base, tmp,
                   acc, traps, sendByte, str, sp, out, ret, io>>

\* delay(ms), called on its own
CallDelay ==
    /\ pc = "idle"
    /\ calls = 0
    /\ calls' = 1
    /\ \E a \in DelayArgs : bios' = [bios EXCEPT !.ms = a]
    /\ pc' = "delay_while"
    /\ UNCHANGED <<fill, snap, mem, uart, misaligned, mtvec, done, callVars, ret, io>>

\* while(ms > 0) {  for(count = 0; ...
DelayWhile ==
    /\ pc = "delay_while"
    /\ bios.ms > 0
    /\ bios' = [bios EXCEPT !.count = 0]
    /\ pc' = "delay_for"
    /\ UNCHANGED <<fill, snap, mem, uart, misaligned, mtvec, done, calls, callVars, ret, io>>

\* for(...; count < 2; count++) { nop }
DelayNop ==
    /\ pc = "delay_for"
    /\ bios.count < 2
    /\ bios' = [bios EXCEPT !.count = @ + 1]
    /\ UNCHANGED <<fill, snap, mem, uart, misaligned, mtvec, done, calls, pc, callVars, ret, io>>

\* the for loop ends (count = 2):  ms--;   (ms > 0 here)
DelayDecrement ==
    /\ pc = "delay_for"
    /\ bios.count >= 2
    /\ bios' = [bios EXCEPT !.ms = @ - 1]
    /\ pc' = "delay_while"
    /\ UNCHANGED <<fill, snap, mem, uart, misaligned, mtvec, done, calls, callVars, ret, io>>

\* while(ms > 0) fails: delay returns, in main to the head of while(1)
DelayReturn ==
    /\ pc = "delay_while"
    /\ bios.ms = 0
    /\ IF caller = "bios"
       THEN /\ pc' = "bios_load"
            /\ bios' = [bios EXCEPT !.iter = Min(@ + 1, MaxIter)]
       ELSE /\ pc' = "delay_ret"
            /\ bios' = bios
    /\ caller' = "top"
    /\ UNCHANGED <<fill, snap, mem, uart, misaligned, mtvec, done, calls, ip, base, tmp,
                   acc, traps, sendByte, str, sp, out, ret, io>>

\* One statement of the BIOS image
BiosStep ==
    \/ BiosStoreZero
    \/ BiosLoad
    \/ BiosStoreInc
    \/ BiosCallDelay
    \/ DelayWhile
    \/ DelayNop
    \/ DelayDecrement
    \/ DelayReturn

-----------------------------------------------------------------------------
(* Return to the caller of the top-level operation *)

PredPcs == {"tx_full_ret", "tx_empty_ret", "rx_empty_ret"}

RetPcs ==
    {"main_ret", "send_ret", "str_ret", "read_ret", "irq_ret", "delay_ret"}
    \cup PredPcs

Return ==
    /\ pc \in RetPcs
    /\ caller = "top"
    /\ pc' = "idle"
    /\ ip' = 0
    /\ base' = <<0, 0>>
    /\ tmp' = 0
    /\ acc' = <<>>
    /\ traps' = 0
    /\ sendByte' = 0
    /\ str' = <<0>>
    /\ sp' = 1
    /\ out' = [written |-> FALSE, val |-> 0]
    /\ ret' = 0
    /\ io' = IoInit
    /\ uart' = UartInit
    /\ snap' = [entry |-> NoEntry,
                prev |-> IF pc = "main_ret"
                         THEN [ran |-> TRUE, base |-> base, mem |-> mem]
                         ELSE NoPrev,
                pred |-> IF pc \in PredPcs
                         THEN [op |-> pc, s |-> io.last[3], ret |-> ret]
                         ELSE NoPred]
    /\ bios' = BiosInit
    /\ UNCHANGED <<fill, mem, misaligned, mtvec, done, calls, caller>>

-----------------------------------------------------------------------------

Next ==
    \/ CallMain
    \/ MainSetTrapVector
    \/ MainStoreLiteral
    \/ MainStoreResultA
    \/ MainStoreResultB
    \/ MainLoadResultA
    \/ MainStoreResultC
    \/ MainLoadResultB
    \/ MainStoreResultD
    \/ MainReturn
    \/ MainTrap
    \/ CallIsTxFull
    \/ CallIsTxEmpty
    \/ CallIsRxEmpty
    \/ CallSend
    \/ SendPollFull
    \/ SendPollClear
    \/ SendWrite
    \/ CallSendString
    \/ StrLoopSend
    \/ StrAfterSend
    \/ StrLoopEnd
    \/ CallRead
    \/ ReadEmpty
    \/ ReadNotEmpty
    \/ ReadData
    \/ CallClearIrq
    \/ BiosMain
    \/ BiosStoreZero
    \/ BiosLoad
    \/ BiosStoreInc
    \/ BiosCallDelay
    \/ CallDelay
    \/ DelayWhile
    \/ DelayNop
    \/ DelayDecrement
    \/ DelayReturn
    \/ Return

Spec == Init /\ [][Next]_vars

\* The CPU keeps executing, and the hardware eventually presents a status
\* value with the TX-FIFO-full flag clear to a driver that keeps polling.
FairSpec ==
    /\ Spec
    /\ WF_vars(SendPollClear)
    /\ WF_vars(SendWrite)
    /\ WF_vars(ReadEmpty \/ ReadNotEmpty)
    /\ WF_vars(ReadData)

\* The CPU keeps executing the BIOS image.
BiosFairSpec == Spec /\ WF_vars(BiosStep)

\* The CPU keeps executing uart_send and uart_send_string; nothing is assumed
\* of what the hardware presents.
CpuFairSpec ==
    /\ Spec
    /\ WF_vars(SendPollFull \/ SendPollClear)
    /\ WF_vars(SendWrite)
    /\ WF_vars(StrLoopSend \/ StrLoopEnd)
    /\ WF_vars(StrAfterSend)

-----------------------------------------------------------------------------
(* Properties *)

\* Number of status reads made during the current invocation (exact below
\* MaxPolls)
StatusReads == io.fullRd + io.clearRd

InTopSend == caller = "top" /\ pc \in {"send_poll", "send_write", "send_ret"}

-----------------------------------------------------------------------------
(* The prober's slots *)

\* The byte a read of address x yields: RAM's, or what the UART register
\* at x presents.
Held(x) == IF RegAt(x) = "none" THEN MemByte(mem, fill, x) ELSE uart[RegAt(x)]

\* The bytes held at baseAddress + off .. baseAddress + off + n - 1
HeldAt(off, n) == [k \in 1..n |-> Held(AddrAdd(base, off + k - 1))]

\* No byte of baseAddress + first .. baseAddress + last is a UART register.
ClearOfUart(b, first, last) ==
    \A off \in first..last : RegAt(AddrAdd(b, off)) = "none"

\* Every access of the prober is aligned to its width.
Aligned8(b) == b[2] % 8 = 0

\* The 40 bytes of the sixteen literals, from +0xFFD0 to +0xFFF7:
\*   88 77 66 55 44 33 22 11   88 99 AA BB CC DD EE FF
\*   44 33 22 11   CC DD EE FF   EE FF  CC DD  AA BB  34 12
\*   FE DC BA 98 76 54 32 10
ExpectedLiteralBytes ==
    <<136, 119, 102, 85, 68, 51, 34, 17,   136, 153, 170, 187, 204, 221, 238, 255,
      68, 51, 34, 17,   204, 221, 238, 255,   238, 255,  204, 221,  170, 187,  52, 18,
      254, 220, 186, 152, 118, 84, 50, 16>>

\* The 8 bytes of the four results, from +0xFFF8 to +0xFFFF:
\*   52 03 (850)   7D 00 (125)   AE FC (-850)   83 FF (-125)
ExpectedResultBytes == <<82, 3,  125, 0,  174, 252,  131, 255>>

LiteralsHeld == HeldAt(RegionFirst, 40) = ExpectedLiteralBytes

ResultsHeld == HeldAt(ResultAOff, 8) = ExpectedResultBytes

\* C2 as stated: for every baseAddress, after the prober completes the
\* sixteen literal slots hold the sixteen literals, byte for byte in
\* little-endian order.
C2_LiteralsForEveryBase == pc = "main_ret" => LiteralsHeld

\* C2 amended: the same for every baseAddress that is a multiple of 8 and
\* whose literal slots +0xFFD0..+0xFFF7 contain no UART register.
C2_LiteralsForValidBase ==
    (/\ pc = "main_ret"
     /\ Aligned8(base)
     /\ ClearOfUart(base, RegionFirst, ResultAOff - 1)) => LiteralsHeld

\* The prober has completed with baseAddress 0xFFFF0F30, where the address
\* arithmetic wraps, over RAM that held 0xA5 everywhere
C2_Witness ==
    /\ pc = "main_ret"
    /\ base = <<65535, 3888>>
    /\ fill = 165
    /\ LiteralsHeld
    /\ Held(MEMORY_ADDRESS) = 136

-----------------------------------------------------------------------------
(* The UART driver *)

LastIsStatusRead == io.last # <<>> /\ io.last[1] = "status" /\ io.last[2] = "R"

NoRegisterWrite == io.stWr = <<>> /\ io.dataWr = <<>>

SentPrefix(n) == [i \in 1..n |-> [val |-> str[i] % 256, ready |-> TRUE]]

InSendString ==
    \/ pc \in {"str_loop", "str_ret"}
    \/ (caller = "str" /\ pc \in {"send_poll", "send_write", "send_ret"})

InSend == pc \in {"send_poll", "send_write", "send_ret"}

C7_ClearIrqOverwrites ==
    pc = "irq_ret" =>
      io = [IoInit EXCEPT !.stWr = <<16>>, !.last = <<"status", "W", 16>>]

\* uart_clear_irq has returned
C7_Witness ==
    /\ pc = "irq_ret"
    /\ io.stWr = <<16>>
    /\ StatusReads = 0

-----------------------------------------------------------------------------
(* The prober's stores *)

RECURSIVE StoresOf(_)
StoresOf(a) ==
    IF a = <<>> THEN <<>>
    ELSE IF a[1].op = "st"
         THEN <<<<a[1].off, a[1].width>>>> \o StoresOf(Tail(a))
         ELSE StoresOf(Tail(a))

\* locationA..P, then resultA..D: offset and width
ExpectedStores ==
    << <<65488, 8>>, <<65496, 8>>, <<65504, 4>>, <<65508, 4>>,
       <<65512, 2>>, <<65514, 2>>, <<65516, 2>>, <<65518, 2>>,
       <<65520, 1>>, <<65521, 1>>, <<65522, 1>>, <<65523, 1>>,
       <<65524, 1>>, <<65525, 1>>, <<65526, 1>>, <<65527, 1>>,
       <<65528, 2>>, <<65530, 2>>, <<65532, 2>>, <<65534, 2>> >>

\* C9: within one invocation each of the twenty slots is stored exactly
\* once, by one store of its width, in program order: locationA..P, then
\* resultA..D; at every moment the stores issued are the first ones of that
\* order, and on return all twenty have been issued.
C9_StoresInProgramOrder ==
    pc \in {"main", "main_ret"} =>
      LET s == StoresOf(acc)
      IN  /\ Len(s) <= 20
          /\ s = SubSeq(ExpectedStores, 1, Len(s))
          /\ pc = "main_ret" => Len(s) = 20
          /\ (pc = "main" /\ ip >= 1) =>
               Len(s) = IF ip <= 19 THEN ip - 1 ELSE IF ip <= 21 THEN ip - 2 ELSE ip - 3

\* The prober has returned after its twenty stores
C9_Witness ==
    /\ pc = "main_ret"
    /\ StoresOf(acc) = ExpectedStores
    /\ Len(acc) = 22

\* A store of the prober has written address x
ProberStored(x) ==
    \E i \in 1..Len(acc) :
        /\ acc[i].op = "st"
        /\ \E k \in 0..(acc[i].width - 1) : AddrAdd(base, acc[i].off + k) = x

Reserved == UartAddrs \cup {MEMORY_ADDRESS}

InProber == pc \in {"main", "main_ret"}

\* C10 as stated: for every baseAddress the test region contains no UART
\* register and not the heartbeat byte, and no store of the prober hits one.
C10_RegionsNeverOverlap ==
    InProber =>
      /\ Region(base) \cap Reserved = {}
      /\ \A x \in Reserved : ~ProberStored(x)

\* baseAddress is in 0x00000001..0x00000038 or in 0xFFFF0F01..0xFFFF0F30
InOverlapRange(b) ==
    \/ (b[1] = 0 /\ b[2] \in 1..56)
    \/ (b[1] = 65535 /\ b[2] \in 3841..3888)

\* C10 amended: the test region contains a UART register exactly when
\* baseAddress is in 0x00000001..0x00000038, and the heartbeat byte exactly
\* when it is in 0xFFFF0F01..0xFFFF0F30 (modulo 2^32); for every other
\* baseAddress, 0 among them, no store of the prober hits a UART register or
\* the heartbeat byte.
C10_RegionsOverlapInRangeOnly ==
    InProber =>
      /\ (Region(base) \cap UartAddrs # {}) <=> (base[1] = 0 /\ base[2] \in 1..56)
      /\ (MEMORY_ADDRESS \in Region(base)) <=>
           (base[1] = 65535 /\ base[2] \in 3841..3888)
      /\ ~InOverlapRange(base) =>
           /\ \A x \in Reserved : ~ProberStored(x)
           /\ NoRegisterWrite /\ io.cfg = 0
      \* at entry, the same for the base addresses around the two ranges
      /\ ip = 0 =>
           /\ \A lo \in 0..64 :
                (Region(<<0, lo>>) \cap UartAddrs # {}) <=> lo \in 1..56
           /\ \A lo \in 3832..3896 :
                (MEMORY_ADDRESS \in Region(<<65535, lo>>)) <=> lo \in 3841..3888
           /\ \A b \in {<<0, lo>> : lo \in 0..64} \cup {<<65535, lo>> : lo \in 3832..3896} :
                ~InOverlapRange(b) => Region(b) \cap Reserved = {}

\* The prober has completed with baseAddress 0 and has hit nothing reserved
C10_Witness ==
    /\ pc = "main_ret"
    /\ base = <<0, 0>>
    /\ Len(acc) = 22
    /\ \A x \in Reserved : ~ProberStored(x)
    /\ io = IoInit

-----------------------------------------------------------------------------
(* The prober's frame *)

\* RAM holds now what it held when main was entered, at every address
\* outside the set keep
SameOutside(keep) ==
    \A x \in (DOMAIN mem \cup DOMAIN snap.entry.mem) \ keep :
        MemByte(mem, fill, x) = MemByte(snap.entry.mem, fill, x)

NoUartAccess == io = IoInit /\ uart = UartInit

\* C11 as stated: an invocation of the prober, whatever its baseAddress,
\* changes no memory byte outside [baseAddress+0xFFD0, baseAddress+0xFFFF],
\* accesses no UART register and leaves `done` unchanged.
C11_FrameForEveryBase ==
    InProber =>
      /\ SameOutside(Region(base))
      /\ NoUartAccess
      /\ done = snap.entry.done

\* C11 amended: when no UART register lies in [baseAddress+0xFFD0,
\* baseAddress+0xFFFF], an invocation of the prober changes no memory byte
\* outside that range, accesses no UART register and leaves `done`
\* unchanged; every access it makes is at one of the twenty slots, and the
\* trap vector is the one main installs in its first statement.
C11_FrameForClearBase ==
    (InProber /\ Region(base) \cap UartAddrs = {}) =>
      /\ SameOutside(Region(base))
      /\ NoUartAccess
      /\ done = snap.entry.done
      /\ \A i \in 1..Len(acc) :
           <<acc[i].off, acc[i].width>> \in {ExpectedStores[k] : k \in 1..20}
      /\ mtvec = IF pc = "main" /\ ip = 0 THEN snap.entry.mtvec ELSE "trap"

\* The prober has completed with baseAddress 0 in a memory that an earlier
\* run with baseAddress 0x40 had written outside the region of this one
C11_Witness ==
    /\ pc = "main_ret"
    /\ base = <<0, 0>>
    /\ Len(acc) = 22
    /\ snap.prev.ran /\ snap.prev.base = <<0, 64>>
    /\ <<1, 16>> \in DOMAIN snap.entry.mem /\ snap.entry.mem[<<1, 16>>] = 136
    /\ <<1, 16>> \notin Region(base)
    /\ mem[<<1, 16>>] = 136
    /\ mem[<<0, 65488>>] = 136

-----------------------------------------------------------------------------
(* Running the prober twice *)

\* main has returned from a run that followed a run with the same baseAddress
SecondRunDone ==
    /\ pc = "main_ret"
    /\ snap.prev.ran
    /\ snap.prev.base = base

\* The bytes the loads of this run returned, in program order
RECURSIVE LoadsOf(_)
LoadsOf(a) ==
    IF a = <<>> THEN <<>>
    ELSE IF a[1].op = "ld"
         THEN <<a[1].bytes>> \o LoadsOf(Tail(a))
         ELSE LoadsOf(Tail(a))

-----------------------------------------------------------------------------
(* Layout of the twenty slots *)

\* Offset and width of locationA..P and resultA..D, as main declares them
Slots ==
    [i \in 1..Len(Literals) |-> <<Literals[i].off, Literals[i].width>>]
    \o << <<ResultAOff, 2>>, <<ResultBOff, 2>>, <<ResultCOff, 2>>, <<ResultDOff, 2>> >>

SlotBytes(s) == s[1]..(s[1] + s[2] - 1)

OffsetsOfWidth(w) == {Slots[i][1] : i \in {j \in 1..Len(Slots) : Slots[j][2] = w}}

\* C13: every slot's offset is a multiple of its width (8-byte slots at
\* 0xFFD0/0xFFD8, 4-byte at 0xFFE0/0xFFE4, 2-byte at 0xFFE8..0xFFEE and
\* 0xFFF8..0xFFFE, 1-byte at 0xFFF0..0xFFF7), the slots are pairwise disjoint
\* and cover +0xFFD0..+0xFFFF without a gap; every access of the prober is at
\* a slot with the slot's width, and is aligned to its width in absolute
\* terms when baseAddress is a multiple of 8.
C13_SlotsAlignedAndContiguous ==
    \* the layout, looked at on entry to main
    /\ (pc = "main" /\ ip = 0) =>
         /\ Len(Slots) = 20
         /\ \A i \in 1..20 : Slots[i][1] % Slots[i][2] = 0
         /\ OffsetsOfWidth(8) = {65488, 65496}
         /\ OffsetsOfWidth(4) = {65504, 65508}
         /\ OffsetsOfWidth(2) =
              {65512, 65514, 65516, 65518, 65528, 65530, 65532, 65534}
         /\ OffsetsOfWidth(1) = 65520..65527
         /\ \A i, j \in 1..20 :
              i # j => SlotBytes(Slots[i]) \cap SlotBytes(Slots[j]) = {}
         /\ UNION {SlotBytes(Slots[i]) : i \in 1..20} = RegionFirst..RegionLast
         /\ Cardinality(RegionFirst..RegionLast) = 48
         /\ \A i \in 1..19 : Slots[i][1] + Slots[i][2] = Slots[i + 1][1]
         /\ \A hi \in {0, 1, 65535} :
              \A lo \in {8 * k : k \in 0..16} \cup {65520, 65528} :
                \A i \in 1..20 :
                  ~Misaligned(AddrAdd(<<hi, lo>>, Slots[i][1]), Slots[i][2])
    \* the accesses made
    /\ \A i \in 1..Len(acc) :
         /\ <<acc[i].off, acc[i].width>> \in {Slots[k] : k \in 1..20}
         /\ Aligned8(base) => ~Misaligned(AddrAdd(base, acc[i].off), acc[i].width)

\* The prober has completed with baseAddress 0x38, every access aligned to
\* its width
C13_Witness ==
    /\ pc = "main_ret"
    /\ base = <<0, 56>>
    /\ Len(acc) = 22
    /\ \A i \in 1..Len(acc) : AddrAdd(base, acc[i].off)[2] % acc[i].width = 0
    /\ acc[1].width = 8 /\ acc[22].width = 2

-----------------------------------------------------------------------------
(* The status checks *)

\* What each check returns for the status value s, main.c lines 33, 42, 51
CheckResult(p, s) ==
    CASE p = "tx_full_ret" -> BoolInt(TxFull(s))
      [] p = "tx_empty_ret" -> BoolInt(TxEmpty(s))
      [] p = "rx_empty_ret" -> BoolInt(RxEmpty(s))

\* C14: a call of uart_is_tx_full, uart_is_tx_emptyl or uart_is_rx_empty makes
\* exactly one read of the status register and no other register access, and
\* its result is determined by the value just read (uart_is_rx_empty: 1 iff
\* bit 2 is set); when the call before it was the same check, the two
\* results agree if the two values read agree, and the result is that of the
\* new value, not of the earlier one.
C14_ChecksReadStatusOnce ==
    pc \in PredPcs =>
      /\ StatusReads = 1
      /\ io.last # <<>> /\ io.last[1] = "status" /\ io.last[2] = "R"
      /\ io.stWr = <<>> /\ io.dataWr = <<>> /\ io.dataRd = 0 /\ io.cfg = 0
      /\ ret = CheckResult(pc, io.last[3])
      /\ pc = "rx_empty_ret" => (ret = 1 <=> (io.last[3] \div 4) % 2 = 1)
      /\ ret \in {0, 1}
      /\ snap.pred.op = pc =>
           /\ snap.pred.s = io.last[3] => ret = snap.pred.ret
           /\ snap.pred.ret = CheckResult(pc, snap.pred.s)

\* uart_is_rx_empty returned 0 for the status value 0 right after a call of
\* it had returned 1 for the status value 4
C14_Witness ==
    /\ pc = "rx_empty_ret"
    /\ snap.pred = [op |-> "rx_empty_ret", s |-> 4, ret |-> 1]
    /\ io.last = <<"status", "R", 0>>
    /\ ret = 0

-----------------------------------------------------------------------------
(* uart_read *)

InRead == pc \in {"read_poll", "read_data", "read_ret"}

ReadAccesses ==
    InRead =>
      /\ NoRegisterWrite /\ io.cfg = 0
      /\ pc = "read_poll" => (io = IoInit /\ ~out.written)
      /\ pc = "read_data" =>
           /\ StatusReads = 1 /\ io.dataRd = 0 /\ ~out.written
           /\ LastIsStatusRead /\ ~RxEmpty(io.last[3])
      /\ pc = "read_ret" =>
           /\ StatusReads = 1
           /\ \/ /\ LastIsStatusRead /\ RxEmpty(io.last[3])
                 /\ io.dataRd = 0 /\ ~out.written /\ ret = 0 - 1
              \/ /\ io.last # <<>> /\ io.last[1] = "data" /\ io.last[2] = "R"
                 /\ io.dataRd = 1
                 /\ out = [written |-> TRUE, val |-> io.last[3]]
                 /\ ret = 0

-----------------------------------------------------------------------------
(* The registers the driver touches *)

InDriver ==
    pc \notin {"idle", "main", "main_ret", "delay_ret"} \cup BiosPcs \cup DelayPcs

SendPcs == {"send_poll", "send_write", "send_ret", "str_loop", "str_ret"}

\* C16: in every operation of the UART driver (io holds the accesses of
\* the operation in progress, so this is so after any sequence of them) the
\* config register is neither read nor written; every access is to the
\* status or the data register; the status register is written only by
\* uart_clear_irq, the data register is written only by uart_send (also
\* when uart_send_string calls it) and read only by uart_read.
C16_ConfigNeverTouched ==
    InDriver =>
      /\ io.cfg = 0
      /\ io.last # <<>> => io.last[1] \in {"status", "data"}
      /\ io.stWr # <<>> => (pc = "irq_ret" /\ io.stWr = <<2 ^ UART_IRQ_PENDING_BIT>>)
      /\ io.dataWr # <<>> => pc \in SendPcs
      /\ io.dataRd # 0 => pc = "read_ret"
      /\ pc = "irq_ret" => (StatusReads = 0 /\ io.dataWr = <<>> /\ io.dataRd = 0)
      /\ uart = UartInit

\* uart_send_string has sent two characters as the second of two driver
\* operations, main never having run, and the config register is untouched
C16_Witness ==
    /\ pc = "str_ret"
    /\ calls = 2
    /\ mtvec = "unset"
    /\ Len(io.dataWr) = 2
    /\ io.cfg = 0
    /\ io.stWr = <<>>

-----------------------------------------------------------------------------
(* The timeout documented on uart_send, main.c lines 55-63 *)

\* C17: uart_send does not wait forever: when the TX FIFO stays full it
\* gives up and returns (with -1), and a uart_send_string that called it
\* returns as well (with -1).
C17_SendTimesOut ==
    /\ (pc = "send_poll") ~> (pc = "send_ret")
    /\ (pc = "send_poll" /\ caller = "str") ~> (pc = "str_ret")

\* uart_send is still polling after MaxPolls reads that all showed the TX
\* FIFO full, nothing written and nothing returned
C17_Witness ==
    /\ pc = "send_poll"
    /\ io.fullRd = MaxPolls
    /\ io.clearRd = 0
    /\ io.dataWr = <<>>
    /\ ret = 0

-----------------------------------------------------------------------------
(* The readback of resultA and resultB *)

\* The two bytes of the 16-bit two's-complement negation of the value whose
\* two bytes are b
Neg16(b) ==
    LET n == (65536 - (b[1] + 256 * b[2])) % 65536
    IN  <<n % 256, n \div 256>>

\* The accesses main makes, in program order: eighteen stores, the load of
\* resultA, the store of resultC, the load of resultB, the store of resultD
ExpectedAccesses ==
    [i \in 1..18 |-> <<"st", ExpectedStores[i][1], ExpectedStores[i][2]>>]
    \o << <<"ld", 65528, 2>>, <<"st", 65532, 2>>,
          <<"ld", 65530, 2>>, <<"st", 65534, 2>> >>

\* C18: the prober makes exactly two loads: of resultA, after the store of
\* 850 to it and before the store to resultC, and of resultB, after the store
\* of 125 to it and before the store to resultD; what it stores to resultC
\* (resultD) is the 16-bit negation of what the load of resultA (resultB)
\* returned, so resultC is stored as 0xFCAE exactly when resultA read back
\* 850; the accesses made are the same whatever the loads return.
C18_ResultsFromReadback ==
    InProber =>
      /\ Len(acc) <= 22
      /\ \A i \in 1..Len(acc) :
           <<acc[i].op, acc[i].off, acc[i].width>> = ExpectedAccesses[i]
      /\ pc = "main_ret" => (Len(acc) = 22 /\ Len(LoadsOf(acc)) = 2)
      /\ Len(acc) >= 19 =>
           /\ acc[17].bytes = <<82, 3>> /\ acc[18].bytes = <<125, 0>>
           /\ Len(acc[19].bytes) = 2
           /\ tmp = SignExt16(acc[IF Len(acc) <= 20 THEN 19 ELSE 21].bytes)
      /\ Len(acc) >= 20 =>
           /\ acc[20].bytes = Neg16(acc[19].bytes)
           /\ acc[20].bytes = <<174, 252>> <=> acc[19].bytes = <<82, 3>>
      /\ Len(acc) >= 21 => Len(acc[21].bytes) = 2
      /\ Len(acc) >= 22 =>
           /\ acc[22].bytes = Neg16(acc[21].bytes)
           /\ acc[22].bytes = <<131, 255>> <=> acc[21].bytes = <<125, 0>>

\* With baseAddress 8 resultA is the UART status register: it read back
\* 0x0301, not 850, and resultC was stored as 0xFCFF
C18_Witness ==
    /\ pc = "main_ret"
    /\ base = <<0, 8>>
    /\ Len(acc) = 22
    /\ acc[17].bytes = <<82, 3>>
    /\ acc[19].bytes = <<1, 3>>
    /\ acc[20].bytes = <<255, 252>>
    /\ acc[21].bytes = <<125, 0>>
    /\ acc[22].bytes = <<131, 255>>

-----------------------------------------------------------------------------
(* The heartbeat of the BIOS image *)

Heartbeat == MemByte(mem, fill, MEMORY_ADDRESS)

\* main of bios.c is running (delay included when main called it)
InBios == pc \in BiosPcs \/ (pc \in DelayPcs /\ caller = "bios")

\* The byte holds k mod 256 at the head of the loop after k iterations, and
\* k + 1 mod 256 from the store of iteration k + 1 on (k counted up to
\* MaxIter)
HeartbeatCounts ==
    /\ InBios =>
         /\ pc = "bios_init" => bios.iter = 0
         /\ pc # "bios_init" => (Heartbeat \in 0..255 /\ DOMAIN mem = {MEMORY_ADDRESS})
         /\ bios.iter < MaxIter =>
              /\ pc \in {"bios_load", "bios_store"} => Heartbeat = bios.iter % 256
              /\ pc = "bios_store" => bios.val = bios.iter % 256
              /\ pc \in {"bios_delay"} \cup DelayPcs =>
                   Heartbeat = (bios.iter + 1) % 256
         /\ pc \in DelayPcs => bios.ms \in 0..1
         /\ io = IoInit /\ uart = UartInit
    /\ pc \in DelayPcs => (bios.ms \in 0..MaxDelay /\ bios.count \in 0..2)

\* C19: main of bios.c stores 0 to the byte at 0x00000F00 and then repeats
\* for ever: read the byte, store (value + 1) mod 256, call delay(1).  delay
\* returns for every ms; after k iterations the byte holds k mod 256; the
\* byte is incremented again and again, and main never returns.
C19_HeartbeatCountsForEver ==
    /\ []HeartbeatCounts
    /\ [][InBios => InBios']_vars
    /\ InBios ~> (pc = "bios_delay")
    /\ (pc \in DelayPcs) ~> (pc \in {"delay_ret", "bios_load"})

\* After 257 iterations the byte has wrapped from 255 to 0 and holds 1
C19_Witness ==
    /\ pc = "bios_load"
    /\ bios.iter = 257
    /\ Heartbeat = 1
    /\ fill = 165

====
